---- MODULE Spec2Model ----
(***************************************************************************)
(* A model of the fitness-tracker request handlers of src/app.py: three    *)
(* MongoDB collections (users, routines, workout_logs), one session cookie *)
(* per client, and one action per database step of every view function.    *)
(***************************************************************************)
EXTENDS Integers, Sequences, FiniteSets, TLC

(***************************************************************************)
(* datetime.datetime.strptime, for the three formats the handlers use.     *)
(* A string is a tuple of one-character strings.  The format is compiled   *)
(* by Python's _strptime into a regular expression, one group per          *)
(* directive; re.match takes the first match in the alternatives' order    *)
(* (backtracking), and the text must then be used up entirely.             *)
(***************************************************************************)
Digits == <<"0", "1", "2", "3", "4", "5", "6", "7", "8", "9">>

IsDigit(ch) == \E i \in 1..Len(Digits) : Digits[i] = ch

DigitVal(ch) == (CHOOSE i \in 1..Len(Digits) : Digits[i] = ch) - 1

\* two digits at pos, read as a number; -1 when there are not two digits
TwoDigits(s, pos) ==
    IF pos + 1 <= Len(s) /\ IsDigit(s[pos]) /\ IsDigit(s[pos + 1])
    THEN 10 * DigitVal(s[pos]) + DigitVal(s[pos + 1])
    ELSE -1

\* one digit at pos; -1 when there is none
OneDigit(s, pos) ==
    IF pos <= Len(s) /\ IsDigit(s[pos]) THEN DigitVal(s[pos]) ELSE -1

\* the two-character alternatives of a directive's group accept lo..hi;
\* two is TwoDigits at the position
TwoAlt(two, lo, hi) ==
    IF two >= lo /\ two <= hi THEN <<[len |-> 2, val |-> two]>> ELSE <<>>

\* the one-character alternative accepts lo..9; one is OneDigit at the position
OneAlt(one, lo) ==
    IF one >= lo THEN <<[len |-> 1, val |-> one]>> ELSE <<>>

\* %d's last alternative: a blank and a digit 1-9
BlankAlt(s, pos) ==
    IF pos + 1 <= Len(s) /\ s[pos] = " " /\ OneDigit(s, pos + 1) >= 1
    THEN <<[len |-> 2, val |-> OneDigit(s, pos + 1)]>>
    ELSE <<>>

\* The ways a directive matches, in the order the regex tries them:
\*   %d  3[0-1]|[1-2]\d|0[1-9]|[1-9]| [1-9]      %H  2[0-3]|[0-1]\d|\d
\*   %m  1[0-2]|0[1-9]|[1-9]                     %M  [0-5]\d|\d
\*   %y  \d\d                                    %S  6[0-1]|[0-5]\d|\d
\* two, one and blank are what stands at the position.
Alternatives(dir, two, one, blank) ==
    CASE dir = "%d" -> TwoAlt(two, 1, 31) \o OneAlt(one, 1) \o blank
      [] dir = "%m" -> TwoAlt(two, 1, 12) \o OneAlt(one, 1)
      [] dir = "%y" -> TwoAlt(two, 0, 99)
      [] dir = "%H" -> TwoAlt(two, 0, 23) \o OneAlt(one, 0)
      [] dir = "%M" -> TwoAlt(two, 0, 59) \o OneAlt(one, 0)
      [] dir = "%S" -> TwoAlt(two, 0, 61) \o OneAlt(one, 0)

DirectiveAlts(dir, s, pos) ==
    Alternatives(dir, TwoDigits(s, pos), OneDigit(s, pos), BlankAlt(s, pos))

IsDirective(tok) == tok \in {"%d", "%m", "%y", "%H", "%M", "%S"}

NoMatch == [ok |-> FALSE]

NoFields == [d |-> 1, m |-> 1, y |-> 0, H |-> 0, M |-> 0, S |-> 0]

SetField(acc, dir, v) ==
    CASE dir = "%d" -> [acc EXCEPT !.d = v]
      [] dir = "%m" -> [acc EXCEPT !.m = v]
      [] dir = "%y" -> [acc EXCEPT !.y = v]
      [] dir = "%H" -> [acc EXCEPT !.H = v]
      [] dir = "%M" -> [acc EXCEPT !.M = v]
      [] dir = "%S" -> [acc EXCEPT !.S = v]

\* the index of the first alternative after which the rest of the format
\* matches; 0 when there is none.  rests[k] is the match of the rest after
\* alternative k.
FirstOk(rests) ==
    IF \E k \in 1..Len(rests) : rests[k].ok
    THEN CHOOSE k \in 1..Len(rests) : rests[k].ok /\ \A h \in 1..(k - 1) : ~rests[h].ok
    ELSE 0

\* a directive's match: alternative k and the match of the rest after it
Taken(dir, alts, rests, k) ==
    IF k = 0 THEN NoMatch
    ELSE [ok |-> TRUE, end |-> rests[k].end, f |-> SetField(rests[k].f, dir, alts[k].val)]

TakeFirst(dir, alts, rests) == Taken(dir, alts, rests, FirstOk(rests))

\* the matches of the rest of the format after each alternative; rest[p] is
\* the match of the rest at position p
RestsAfter(alts, rest, pos) == [k \in 1..Len(alts) |-> rest[pos + alts[k].len]]

Backtrack(dir, alts, rest, pos) == TakeFirst(dir, alts, RestsAfter(alts, rest, pos))

\* re.match of the compiled format against s.  Rest[i][pos] is the first
\* match, in the regex's priority order, of the tokens from i on at position
\* pos: a directive backtracks through its alternatives, a literal character
\* matches itself.
ReMatch(fmt, s) ==
    LET Rest[i \in 1..(Len(fmt) + 1)] ==
            [pos \in 1..(Len(s) + 1) |->
               IF i > Len(fmt) THEN [ok |-> TRUE, end |-> pos, f |-> NoFields]
               ELSE IF IsDirective(fmt[i])
               THEN Backtrack(fmt[i], DirectiveAlts(fmt[i], s, pos), Rest[i + 1], pos)
               ELSE IF pos <= Len(s) /\ s[pos] = fmt[i]
                    THEN Rest[i + 1][pos + 1]
                    ELSE NoMatch]
    IN  Rest[1][1]

\* %y: values 69-99 are 1969-1999, 0-68 are 2000-2068
FullYear(y) == IF y <= 68 THEN 2000 + y ELSE 1900 + y

DaysInMonth(year, m) ==
    CASE m \in {4, 6, 9, 11} -> 30
      [] m = 2 -> IF year % 4 = 0 /\ (year % 100 # 0 \/ year % 400 = 0) THEN 29 ELSE 28
      [] OTHER -> 31

ValueError == [ok |-> FALSE, err |-> "ValueError"]

TypeError == [ok |-> FALSE, err |-> "TypeError"]

\* what strptime makes of the regex match r of a text of length n: ValueError
\* when the text does not match, is not used up, or names a day the month
\* does not have
Converted(r, n) ==
    IF ~r.ok THEN ValueError
    ELSE IF r.end # n + 1 THEN ValueError
    ELSE IF r.f.d > DaysInMonth(FullYear(r.f.y), r.f.m) \/ r.f.S > 59 THEN ValueError
    ELSE [ok |-> TRUE,
          dt |-> [year |-> FullYear(r.f.y), month |-> r.f.m, day |-> r.f.d,
                  hour |-> r.f.H, minute |-> r.f.M, second |-> r.f.S]]

\* datetime.datetime.strptime(s, fmt)
Strptime(s, fmt) == Converted(ReMatch(fmt, s), Len(s))

FmtDate == <<"%d", "/", "%m", "/", "%y">>

FmtDateTime == <<"%d", "/", "%m", "/", "%y", "%H", ":", "%M">>

FmtDateTimeSec == <<"%d", "/", "%m", "/", "%y", "%H", ":", "%M", ":", "%S">>

\* the order of datetime values ($gte, $lt, $sort)
DayKey(t) == (t.year * 13 + t.month) * 32 + t.day

SecKey(t) == (t.hour * 60 + t.minute) * 60 + t.second

DtLess(a, b) == DayKey(a) < DayKey(b) \/ (DayKey(a) = DayKey(b) /\ SecKey(a) < SecKey(b))

DtLeq(a, b) == a = b \/ DtLess(a, b)


(***************************************************************************)
(* Bounds and the inputs the requests are drawn from.                      *)
(***************************************************************************)
Clients == {"c1", "c2"}

\* session.get("user") is None
None == "None"

\* request.form.get("username"): the text typed into the form
FormNames == {"admin", "bob", "Bob", "cat", "Cat"}

Passwords == {"pw1", "pw2"}

Methods == {"GET", "POST"}

RoutineNames == {"push", "pull"}

\* the six form fields exercise_one .. exercise_three_reps, taken together
Exercises == {"squats x10", "squats x12"}

SetCounts == {1, 2}

Notes == {"felt good"}

\* request.args.get("date_to") when the URL has no such parameter
Missing == <<"(missing)">>

EmptyStr == <<>>

\* date picker values: two valid dates, a date whose year lacks a digit, and a
\* day the month does not have
Jan01 == <<"0", "1", "/", "0", "1", "/", "2", "1">>

Jan02 == <<"0", "2", "/", "0", "1", "/", "2", "1">>

ShortYear == <<"0", "1", "/", "0", "1", "/", "2">>

Feb31 == <<"3", "1", "/", "0", "2", "/", "2", "1">>

DateStrings == {Jan01, Jan02, ShortYear, Feb31}

Midnight == <<"0", "0", ":", "0", "0">>

LastMinute == <<"2", "3", ":", "5", "9">>

TimeStrings == {Midnight, LastMinute}

EndOfDay == <<"2", "3", ":", "5", "9", ":", "5", "9">>

(***************************************************************************)
(* The state: the three collections, each client's session cookie, each    *)
(* client's position inside a view function with the locals it holds, and  *)
(* the last response sent.                                                 *)
(***************************************************************************)
VARIABLES users, routines, workout_logs, nextRoutineId, nextLogId,
          session, pc, frame, resp

vars == <<users, routines, workout_logs, nextRoutineId, nextLogId,
          session, pc, frame, resp>>

db == <<users, routines, workout_logs, nextRoutineId, nextLogId>>

\* str.lower() on the names the forms submit
Lower(s) == CASE s = "Bob" -> "bob" [] s = "Cat" -> "cat" [] s = "Admin" -> "admin" [] OTHER -> s

\* werkzeug's generate_password_hash / check_password_hash
GeneratePasswordHash(password) == <<"pbkdf2", password>>

\* a check that takes any password
CheckAnyPassword(pwhash, password) == TRUE

CheckPasswordHash(pwhash, password) == pwhash = <<"pbkdf2", password>>

\* find_one's answer when no document matches (Python's None)
NotFound == [_id |-> 0]

\* find_one: the first matching document in natural (insertion) order
FindOne(coll, Matches(_)) ==
    IF \E doc \in coll : Matches(doc)
    THEN CHOOSE doc \in coll : Matches(doc) /\ \A o \in coll : Matches(o) => doc._id <= o._id
    ELSE NotFound

FindById(coll, id) == LET M(doc) == doc._id = id IN FindOne(coll, M)

Perms(S) == {f \in [1..Cardinality(S) -> S] : \A i, j \in 1..Cardinality(S) : i # j => f[i] # f[j]}

\* list(find(...)): the matching documents in natural order
FindList(coll, Matches(_)) ==
    LET S == {doc \in coll : Matches(doc)}
    IN  CHOOSE f \in Perms(S) : \A i, j \in 1..Cardinality(S) : i < j => f[i]._id < f[j]._id

\* the orders a {"$sort": {"date": -1}} stage may return S in
SortDateDesc(S) ==
    {f \in Perms(S) : \A i, j \in 1..Cardinality(S) : i < j => ~DtLess(f[i].date, f[j].date)}

\* the orders .sort("date") may return S in
SortDateAsc(S) ==
    {f \in Perms(S) : \A i, j \in 1..Cardinality(S) : i < j => ~DtLess(f[j].date, f[i].date)}

\* update_one / delete_one with a whole document as the filter: the document
\* is matched only while every field still has the value that was read
UpdateOne(coll, filter, entry) ==
    IF filter \in coll THEN (coll \ {filter}) \cup {entry} ELSE coll

DeleteOne(coll, filter) == coll \ {filter}

NoFrame == [op |-> "none"]

\* the responses: redirect(url_for(to)) after flash(...), render_template, and
\* the 500 of an uncaught exception; a flash text is cut to its first sentence
\* and loses the names formatted into it
Redirect(c, op, to, flash) ==
    [client |-> c, op |-> op, kind |-> "redirect", to |-> to, flash |-> flash, data |-> <<>>]

Render(c, op, template, data) ==
    [client |-> c, op |-> op, kind |-> "render", to |-> template, flash |-> "", data |-> data]

\* an exception no handler catches: Flask answers 500
ServerError(c, op, exc) ==
    [client |-> c, op |-> op, kind |-> "error", to |-> "500", flash |-> exc, data |-> <<>>]

Goto(c, label, locals) ==
    /\ pc' = [pc EXCEPT ![c] = label]
    /\ frame' = [frame EXCEPT ![c] = locals]

Return(c, response) ==
    /\ pc' = [pc EXCEPT ![c] = "idle"]
    /\ frame' = [frame EXCEPT ![c] = NoFrame]
    /\ resp' = response

Init ==
    /\ users = {[_id |-> 1, username |-> "admin", password |-> GeneratePasswordHash("pw1")],
                [_id |-> 2, username |-> "bob", password |-> GeneratePasswordHash("pw2")]}
    /\ routines = {[_id |-> 1, routine_name |-> "push", exercises |-> "squats x10",
                    username |-> "admin"]}
    /\ workout_logs = {}
    /\ nextRoutineId = 2
    /\ nextLogId = 1
    /\ session = [c \in Clients |-> None]
    /\ pc = [c \in Clients |-> "idle"]
    /\ frame = [c \in Clients |-> NoFrame]
    /\ resp = [client |-> "none", op |-> "none", kind |-> "none", to |-> "", flash |-> "",
               data |-> <<>>]

\* the login_required decorator lets the request through
\* a decorator that lets every request through
LoginNotRequired(c) == TRUE

LoginRequired(c) == session[c] # None

\* ... or answers it itself
LoginRedirect(c, op) ==
    /\ Return(c, Redirect(c, op, "login", "You must login to access this page."))
    /\ UNCHANGED <<db, session>>


(***************************************************************************)
(* Accounts: login, register, logout.  A handler's parameters are the      *)
(* client and what the request carries: the method, the form fields, the   *)
(* URL's path and query parameters.                                        *)
(***************************************************************************)
FindUser(username) == LET M(doc) == doc.username = username IN FindOne(users, M)

\* login's POST branch, with the document find_one returned
LoginPost(c, username, valid_username, form_password) ==
    IF valid_username # NotFound
    THEN IF CheckPasswordHash(valid_username.password, form_password)
         THEN /\ session' = [session EXCEPT ![c] = username]
              /\ Return(c, Redirect(c, "login", "workout_log", "Welcome"))
         ELSE /\ Return(c, Redirect(c, "login", "login", "Username or password incorrect."))
              /\ UNCHANGED session
    ELSE /\ Return(c, Redirect(c, "login", "login", "Username or password incorrect."))
         /\ UNCHANGED session

login(c, method, form_username, form_password) ==
    /\ pc[c] = "idle"
    /\ IF session[c] = None
       THEN IF method = "POST"
            THEN LoginPost(c, Lower(form_username), FindUser(Lower(form_username)),
                           form_password)
            ELSE /\ Return(c, Render(c, "login", "login.html", <<>>))
                 /\ UNCHANGED session
       ELSE /\ Return(c, Redirect(c, "login", "workout_log", ""))
            /\ UNCHANGED session
    /\ UNCHANGED db

\* how many requests stand between their check and their insert
Pending(label) == Cardinality({d \in Clients : pc[d] = label})

\* register, up to the find_one that looks for the name
register(c, in, method, form_username, form_password) ==
    /\ pc[c] = "idle"
    /\ IF session[c] = None
       THEN IF method = "POST"
            THEN IF FindUser(Lower(form_username)) # NotFound
                 THEN Return(c, Redirect(c, "register", "register", "Username is unavailable."))
                 ELSE /\ Cardinality(users) + Pending("register_insert") < in.max_users
                      /\ Goto(c, "register_insert",
                              [op |-> "register", username |-> Lower(form_username),
                               password |-> GeneratePasswordHash(form_password)])
                      /\ UNCHANGED resp
            ELSE Return(c, Render(c, "register", "register.html", <<>>))
       ELSE Return(c, Redirect(c, "register", "workout_log", ""))
    /\ UNCHANGED <<db, session>>

\* register from insert_one on if it did not put the user in the session
register_insert_only(c) ==
    /\ pc[c] = "register_insert"
    /\ users' = users \cup {[_id |-> Cardinality(users) + 1,
                             username |-> frame[c].username,
                             password |-> frame[c].password]}
    /\ Return(c, Redirect(c, "register", "workout_log", "Your account has been created."))
    /\ UNCHANGED <<routines, workout_logs, nextRoutineId, nextLogId, session>>

\* register, from insert_one on
register_insert(c) ==
    /\ pc[c] = "register_insert"
    /\ users' = users \cup {[_id |-> Cardinality(users) + 1,
                             username |-> frame[c].username,
                             password |-> frame[c].password]}
    /\ session' = [session EXCEPT ![c] = frame[c].username]
    /\ Return(c, Redirect(c, "register", "workout_log", "Your account has been created."))
    /\ UNCHANGED <<routines, workout_logs, nextRoutineId, nextLogId>>

logout(c) ==
    /\ pc[c] = "idle"
    /\ IF LoginRequired(c)
       THEN /\ session' = [session EXCEPT ![c] = None]
            /\ Return(c, Redirect(c, "logout", "home", "You have been logged out."))
            /\ UNCHANGED db
       ELSE LoginRedirect(c, "logout")

(***************************************************************************)
(* Workout logs: workout_log, add_workout, edit_workout, delete_workout.   *)
(***************************************************************************)
\* the $lookup stage: the routines a log's routine_id names, joined on
Lookup(log) ==
    LET M(doc) == doc._id = log.routine_id
    IN  [_id |-> log._id, routine_id |-> log.routine_id, date |-> log.date,
         notes |-> log.notes, sets |-> log.sets, username |-> log.username,
         routine |-> FindList(routines, M)]

\* date_from as workout_log parses it
ParseDateFrom(date_from) == Strptime(date_from, FmtDate)

\* date_to as workout_log parses it, the end of the day appended to the text
ParseDateTo(date_to) == Strptime(date_to \o EndOfDay, FmtDateTimeSec)

\* the try block of workout_log: f and t are the two strptime results, in
\* their order; None + "23:59:59" is a TypeError, which the except clause does
\* not catch
TryRange(f, date_to, t) ==
    IF ~f.ok THEN ValueError
    ELSE IF date_to = Missing THEN TypeError
    ELSE IF ~t.ok THEN ValueError
    ELSE [ok |-> TRUE, from |-> f.dt, to |-> t.dt]

ParseRange(date_from, date_to) ==
    TryRange(ParseDateFrom(date_from), date_to, ParseDateTo(date_to))

\* the $match stage with a date range
MatchRange(user, from, to) ==
    {log \in workout_logs : /\ log.username = user
                            /\ DtLeq(from, log.date)
                            /\ DtLess(log.date, to)}

\* the $match stage without one
MatchUser(user) == {log \in workout_logs : log.username = user}

\* workout_log's answer when the URL has a date_from
WorkoutLogRange(c, range) ==
    IF range.ok
    THEN \E logs \in SortDateDesc(
              {Lookup(l) : l \in MatchRange(session[c], range.from, range.to)}) :
           Return(c, Render(c, "workout_log", "workout_log.html", logs))
    ELSE IF range = ValueError
    THEN Return(c, Redirect(c, "workout_log", "workout_log", "Invalid date."))
    ELSE Return(c, ServerError(c, "workout_log", range.err))

workout_log(c, date_from, date_to) ==
    /\ pc[c] = "idle"
    /\ IF LoginRequired(c)
       THEN /\ IF date_from # EmptyStr
               THEN WorkoutLogRange(c, ParseRange(date_from, date_to))
               ELSE \E logs \in SortDateDesc({Lookup(l) : l \in MatchUser(session[c])}) :
                      Return(c, Render(c, "workout_log", "workout_log.html", logs))
            /\ UNCHANGED <<db, session>>
       ELSE LoginRedirect(c, "workout_log")

\* default_routines + user_routines, as the add/edit workout pages list them
RoutineChoices(user) ==
    LET A(doc) == doc.username = "admin"
        U(doc) == doc.username = user
    IN  FindList(routines, A) \o FindList(routines, U)

\* add_workout's POST branch, with what strptime made of date + time
AddWorkoutPost(c, in, iso_date, routine_id, notes, sets) ==
    IF ~iso_date.ok
    THEN /\ Return(c, Redirect(c, "add_workout", "add_workout", "Invalid date/time."))
         /\ UNCHANGED <<db, session>>
    ELSE /\ nextLogId <= in.max_logs
         /\ workout_logs' = workout_logs \cup
              {[_id |-> nextLogId, routine_id |-> routine_id, date |-> iso_date.dt,
                notes |-> notes, sets |-> sets, username |-> session[c]]}
         /\ nextLogId' = nextLogId + 1
         /\ Return(c, Redirect(c, "add_workout", "workout_log", "Workout record added!"))
         /\ UNCHANGED <<users, routines, nextRoutineId, session>>

add_workout(c, in, method, workout_date, workout_time, routine_id, notes, sets) ==
    /\ pc[c] = "idle"
    /\ IF LoginRequired(c)
       THEN IF method = "POST"
            THEN AddWorkoutPost(c, in, Strptime(workout_date \o workout_time, FmtDateTime),
                                routine_id, notes, sets)
            ELSE /\ Return(c, Render(c, "add_workout", "add_workout.html",
                                     RoutineChoices(session[c])))
                 /\ UNCHANGED <<db, session>>
       ELSE LoginRedirect(c, "add_workout")

\* edit_workout's POST branch, with the log find_one returned and what
\* strptime made of date + time; strptime is not in a try block here
EditWorkoutPost(c, log, iso_date, routine_id, notes, sets) ==
    IF log = NotFound
    THEN Return(c, ServerError(c, "edit_workout", "TypeError"))
    ELSE IF log.username = session[c]
    THEN IF ~iso_date.ok
         THEN Return(c, ServerError(c, "edit_workout", "ValueError"))
         ELSE /\ Goto(c, "edit_workout_update",
                      [op |-> "edit_workout", log |-> log,
                       entry |-> [_id |-> log._id, routine_id |-> routine_id,
                                  date |-> iso_date.dt, notes |-> notes, sets |-> sets,
                                  username |-> session[c]]])
              /\ UNCHANGED resp
    ELSE Return(c, Redirect(c, "edit_workout", "workout_log",
                            "You don't have permission to edit this log."))

\* edit_workout, up to the ownership check and the building of the entry
edit_workout(c, method, log_id, workout_date, workout_time, routine_id, notes, sets) ==
    /\ pc[c] = "idle"
    /\ IF LoginRequired(c)
       THEN /\ IF method = "POST"
               THEN EditWorkoutPost(c, FindById(workout_logs, log_id),
                                    Strptime(workout_date \o workout_time, FmtDateTime),
                                    routine_id, notes, sets)
               ELSE Return(c, Render(c, "edit_workout", "edit_workout.html",
                                     <<FindById(workout_logs, log_id),
                                       RoutineChoices(session[c])>>))
            /\ UNCHANGED <<db, session>>
       ELSE LoginRedirect(c, "edit_workout")

\* edit_workout, the update_one
edit_workout_update(c) ==
    /\ pc[c] = "edit_workout_update"
    /\ workout_logs' = UpdateOne(workout_logs, frame[c].log, frame[c].entry)
    /\ Return(c, Redirect(c, "edit_workout", "workout_log", "Workout record updated."))
    /\ UNCHANGED <<users, routines, nextRoutineId, nextLogId, session>>

\* delete_workout after its find_one
DeleteWorkoutFound(c, log) ==
    IF log = NotFound
    THEN Return(c, ServerError(c, "delete_workout", "TypeError"))
    ELSE IF log.username = session[c]
    THEN /\ Goto(c, "delete_workout_delete", [op |-> "delete_workout", log |-> log])
         /\ UNCHANGED resp
    ELSE Return(c, Redirect(c, "delete_workout", "workout_log",
                            "You don't have permission to delete this log."))

\* delete_workout, up to the ownership check
delete_workout(c, log_id) ==
    /\ pc[c] = "idle"
    /\ IF LoginRequired(c)
       THEN /\ DeleteWorkoutFound(c, FindById(workout_logs, log_id))
            /\ UNCHANGED <<db, session>>
       ELSE LoginRedirect(c, "delete_workout")

\* delete_workout, the delete_one
delete_workout_delete(c) ==
    /\ pc[c] = "delete_workout_delete"
    /\ workout_logs' = DeleteOne(workout_logs, frame[c].log)
    /\ Return(c, Redirect(c, "delete_workout", "workout_log", "Workout record deleted."))
    /\ UNCHANGED <<users, routines, nextRoutineId, nextLogId, session>>

(***************************************************************************)
(* Routines: my_routines, add_routine, edit_routine, delete_routine.       *)
(***************************************************************************)
\* find({"username": "admin"}), as my_routines and add_workout list it
DefaultRoutines == LET A(doc) == doc.username = "admin" IN FindList(routines, A)

my_routines(c) ==
    /\ pc[c] = "idle"
    /\ IF LoginRequired(c)
       THEN LET U(doc) == doc.username = session[c]
            IN  /\ Return(c, Render(c, "my_routines", "my_routines.html",
                                    [default_routines |-> DefaultRoutines,
                                     custom_routines |-> FindList(routines, U)]))
                /\ UNCHANGED <<db, session>>
       ELSE LoginRedirect(c, "my_routines")

\* the $or query of add_routine and edit_routine: a routine of this name that
\* the user or admin owns
DuplicateRoutine(user, routine_name) ==
    LET M(doc) == \/ doc.username = user /\ doc.routine_name = routine_name
                  \/ doc.username = "admin" /\ doc.routine_name = routine_name
    IN  FindOne(routines, M)

\* add_routine, up to the find_one that looks for the name
add_routine(c, in, method, routine_name, exercises) ==
    /\ pc[c] = "idle"
    /\ IF LoginRequired(c)
       THEN /\ IF method = "POST"
               THEN IF DuplicateRoutine(session[c], routine_name) # NotFound
                    THEN Return(c, Redirect(c, "add_routine", "add_routine",
                                            "Duplicate routine name."))
                    ELSE /\ nextRoutineId + Pending("add_routine_insert") <= in.max_routines
                         /\ Goto(c, "add_routine_insert",
                                 [op |-> "add_routine", routine_name |-> routine_name,
                                  exercises |-> exercises])
                         /\ UNCHANGED resp
               ELSE Return(c, Render(c, "add_routine", "add_routine.html", <<>>))
            /\ UNCHANGED <<db, session>>
       ELSE LoginRedirect(c, "add_routine")

\* add_routine, the insert_one
add_routine_insert(c) ==
    /\ pc[c] = "add_routine_insert"
    /\ routines' = routines \cup {[_id |-> nextRoutineId,
                                   routine_name |-> frame[c].routine_name,
                                   exercises |-> frame[c].exercises,
                                   username |-> session[c]]}
    /\ nextRoutineId' = nextRoutineId + 1
    /\ Return(c, Redirect(c, "add_routine", "my_routines", "New routine successfully added."))
    /\ UNCHANGED <<users, workout_logs, nextLogId, session>>

\* edit_routine's POST branch if it did not compare the owner with the session
EditRoutinePostAnyone(c, routine, routine_name, exercises) ==
    IF routine = NotFound
    THEN Return(c, ServerError(c, "edit_routine", "TypeError"))
    ELSE /\ Goto(c, IF routine_name # routine.routine_name
                    THEN "edit_routine_check" ELSE "edit_routine_update",
                 [op |-> "edit_routine", routine |-> routine,
                  routine_name |-> routine_name, exercises |-> exercises])
         /\ UNCHANGED resp

\* edit_routine's POST branch, with the routine find_one returned
EditRoutinePost(c, routine, routine_name, exercises) ==
    IF routine = NotFound
    THEN Return(c, ServerError(c, "edit_routine", "TypeError"))
    ELSE IF routine.username = session[c]
    THEN /\ Goto(c, IF routine_name # routine.routine_name
                    THEN "edit_routine_check" ELSE "edit_routine_update",
                 [op |-> "edit_routine", routine |-> routine,
                  routine_name |-> routine_name, exercises |-> exercises])
         /\ UNCHANGED resp
    ELSE Return(c, Redirect(c, "edit_routine", "my_routines",
                            "You don't have permission to edit this routine."))

\* edit_routine, up to the ownership check
edit_routine(c, method, routine_id, routine_name, exercises) ==
    /\ pc[c] = "idle"
    /\ IF LoginRequired(c)
       THEN /\ IF method = "POST"
               THEN EditRoutinePost(c, FindById(routines, routine_id), routine_name, exercises)
               ELSE Return(c, Render(c, "edit_routine", "edit_routine.html",
                                     FindById(routines, routine_id)))
            /\ UNCHANGED <<db, session>>
       ELSE LoginRedirect(c, "edit_routine")

\* edit_routine, the find_one that looks for the new name
edit_routine_check(c) ==
    /\ pc[c] = "edit_routine_check"
    /\ IF DuplicateRoutine(session[c], frame[c].routine_name) # NotFound
       THEN Return(c, Redirect(c, "edit_routine", "edit_routine", "Duplicate routine name."))
       ELSE /\ Goto(c, "edit_routine_update", frame[c])
            /\ UNCHANGED resp
    /\ UNCHANGED <<db, session>>

\* edit_routine, the update_one
edit_routine_update(c) ==
    /\ pc[c] = "edit_routine_update"
    /\ routines' = UpdateOne(routines, frame[c].routine,
                             [_id |-> frame[c].routine._id,
                              routine_name |-> frame[c].routine_name,
                              exercises |-> frame[c].exercises,
                              username |-> session[c]])
    /\ Return(c, Redirect(c, "edit_routine", "my_routines", "Routine updated."))
    /\ UNCHANGED <<users, workout_logs, nextRoutineId, nextLogId, session>>

\* delete_routine after its find_one if it did not compare the owner with the
\* session
DeleteRoutineFoundAnyone(c, routine) ==
    IF routine = NotFound
    THEN Return(c, ServerError(c, "delete_routine", "TypeError"))
    ELSE /\ Goto(c, "delete_routine_logs", [op |-> "delete_routine", routine |-> routine])
         /\ UNCHANGED resp

\* delete_routine after its find_one; the function has no return for another
\* user's routine, which Flask answers with a 500
DeleteRoutineFound(c, routine) ==
    IF routine = NotFound
    THEN Return(c, ServerError(c, "delete_routine", "TypeError"))
    ELSE IF routine.username = session[c]
    THEN /\ Goto(c, "delete_routine_logs", [op |-> "delete_routine", routine |-> routine])
         /\ UNCHANGED resp
    ELSE Return(c, ServerError(c, "delete_routine", "TypeError"))

\* delete_routine, up to the ownership check
delete_routine(c, routine_id) ==
    /\ pc[c] = "idle"
    /\ IF LoginRequired(c)
       THEN /\ DeleteRoutineFound(c, FindById(routines, routine_id))
            /\ UNCHANGED <<db, session>>
       ELSE LoginRedirect(c, "delete_routine")

\* delete_routine's delete_many if its filter also named the session user
delete_routine_own_logs(c) ==
    /\ pc[c] = "delete_routine_logs"
    /\ workout_logs' = {log \in workout_logs : ~(/\ log.routine_id = frame[c].routine._id
                                                 /\ log.username = session[c])}
    /\ Goto(c, "delete_routine_routine", frame[c])
    /\ UNCHANGED <<users, routines, nextRoutineId, nextLogId, session, resp>>

\* delete_routine, the delete_many of the logs that use the routine
delete_routine_logs(c) ==
    /\ pc[c] = "delete_routine_logs"
    /\ workout_logs' = {log \in workout_logs : log.routine_id # frame[c].routine._id}
    /\ Goto(c, "delete_routine_routine", frame[c])
    /\ UNCHANGED <<users, routines, nextRoutineId, nextLogId, session, resp>>

\* delete_routine, the delete_one of the routine
delete_routine_routine(c) ==
    /\ pc[c] = "delete_routine_routine"
    /\ routines' = DeleteOne(routines, frame[c].routine)
    /\ Return(c, Redirect(c, "delete_routine", "my_routines",
                          "Routine and workout logs deleted."))
    /\ UNCHANGED <<users, workout_logs, nextRoutineId, nextLogId, session>>

(***************************************************************************)
(* track_progress                                                          *)
(***************************************************************************)
\* a max that returns the last log of the list with the largest sets
MaxBySetsLast(logs) ==
    logs[CHOOSE i \in 1..Len(logs) :
           /\ \A j \in 1..Len(logs) : logs[j].sets <= logs[i].sets
           /\ \A j \in (i + 1)..Len(logs) : logs[j].sets < logs[i].sets]

\* max(logs, key=sets): the first log of the list with the largest sets
MaxBySets(logs) ==
    logs[CHOOSE i \in 1..Len(logs) :
           /\ \A j \in 1..Len(logs) : logs[j].sets <= logs[i].sets
           /\ \A j \in 1..(i - 1) : logs[j].sets < logs[i].sets]

\* track_progress after its find
TrackProgressFound(c, found, routine_id) ==
    IF Cardinality(found) > 0
    THEN \E logs \in SortDateAsc(found) :
           Return(c, Render(c, "track_progress", "track_progress.html",
                    [labels |-> [i \in 1..Len(logs) |-> logs[i].date],
                     values |-> [i \in 1..Len(logs) |-> logs[i].sets],
                     best |-> MaxBySets(logs),
                     routine |-> FindById(routines, routine_id)]))
    ELSE Return(c, Redirect(c, "track_progress", "my_routines",
                            "No workouts recorded with this routine."))

track_progress(c, username, routine_id) ==
    /\ pc[c] = "idle"
    /\ IF LoginRequired(c)
       THEN /\ TrackProgressFound(c, {log \in workout_logs : /\ log.username = username
                                                             /\ log.routine_id = routine_id},
                                  routine_id)
            /\ UNCHANGED <<db, session>>
       ELSE LoginRedirect(c, "track_progress")

(***************************************************************************)
(* The specifications.  The handlers and the collections are the same in   *)
(* all of them; they differ in which handlers the clients call and in the  *)
(* values the clients submit.  Steps of different clients interleave at    *)
(* every database call, as on a threaded server, unless the specification  *)
(* is a serial one, which serves one request at a time.                    *)
(***************************************************************************)
\* a client's requests, one per route, with inputs drawn from in
LoginRequest(c, in) ==
    \E method \in in.methods, form_username \in in.names, form_password \in in.passwords :
        login(c, method, form_username, form_password)

RegisterRequest(c, in) ==
    \E method \in in.methods, form_username \in in.names, form_password \in in.passwords :
        register(c, in, method, form_username, form_password)

WorkoutLogRequest(c, in) ==
    \E date_from \in in.date_from, date_to \in in.date_to : workout_log(c, date_from, date_to)

AddWorkoutRequest(c, in) ==
    \E method \in in.methods, workout_date \in in.dates, workout_time \in in.times,
       routine_id \in 1..in.max_routines, notes \in Notes, sets \in in.sets :
        add_workout(c, in, method, workout_date, workout_time, routine_id, notes, sets)

EditWorkoutRequest(c, in) ==
    \E method \in in.methods, log_id \in 1..in.max_logs, workout_date \in in.dates,
       workout_time \in in.times, routine_id \in 1..in.max_routines, notes \in Notes,
       sets \in in.sets :
        edit_workout(c, method, log_id, workout_date, workout_time, routine_id, notes, sets)

DeleteWorkoutRequest(c, in) == \E log_id \in 1..in.max_logs : delete_workout(c, log_id)

AddRoutineRequest(c, in) ==
    \E method \in in.methods, routine_name \in in.routine_names, exercises \in in.exercises :
        add_routine(c, in, method, routine_name, exercises)

EditRoutineRequest(c, in) ==
    \E method \in in.methods, routine_id \in 1..in.max_routines,
       routine_name \in in.routine_names, exercises \in in.exercises :
        edit_routine(c, method, routine_id, routine_name, exercises)

DeleteRoutineRequest(c, in) == \E routine_id \in 1..in.max_routines : delete_routine(c, routine_id)

TrackProgressRequest(c, in) ==
    \E username \in {Lower(n) : n \in in.names}, routine_id \in 1..in.max_routines :
        track_progress(c, username, routine_id)

\* Spec: one browser calling every handler with the smallest inputs.  (A
\* serial run of several clients is a run of one that logs out and in.)
MaxUsers == 3

MaxRoutines == 2

MaxLogs == 1

TourInputs ==
    [names |-> {"admin", "cat"}, passwords |-> {"pw1"}, methods |-> Methods,
     routine_names |-> {"pull"}, exercises |-> {"squats x10"},
     dates |-> {Jan01}, times |-> {Midnight}, sets |-> {1},
     date_from |-> {EmptyStr}, date_to |-> {EmptyStr},
     max_users |-> MaxUsers, max_routines |-> MaxRoutines, max_logs |-> MaxLogs]

Step(c, in) ==
    \/ LoginRequest(c, in)
    \/ RegisterRequest(c, in)
    \/ register_insert(c)
    \/ logout(c)
    \/ WorkoutLogRequest(c, in)
    \/ AddWorkoutRequest(c, in)
    \/ EditWorkoutRequest(c, in)
    \/ edit_workout_update(c)
    \/ DeleteWorkoutRequest(c, in)
    \/ delete_workout_delete(c)
    \/ my_routines(c)
    \/ AddRoutineRequest(c, in)
    \/ add_routine_insert(c)
    \/ EditRoutineRequest(c, in)
    \/ edit_routine_check(c)
    \/ edit_routine_update(c)
    \/ DeleteRoutineRequest(c, in)
    \/ delete_routine_logs(c)
    \/ delete_routine_routine(c)
    \/ TrackProgressRequest(c, in)

\* the one browser of Spec
TourClients == {"c1"}

Next == \E c \in TourClients : Step(c, TourInputs)

Spec == Init /\ [][Next]_vars

\* AccountsSpec: two clients on the account handlers, interleaved.  No other
\* handler reads or writes users, and none writes the session.
AccountsMaxUsers == 4

AccountsInputs ==
    [TourInputs EXCEPT !.names = {"bob", "Bob", "cat", "Cat"}, !.passwords = Passwords,
                       !.max_users = AccountsMaxUsers]

AccountsNext ==
    \E c \in Clients :
        \/ LoginRequest(c, AccountsInputs)
        \/ RegisterRequest(c, AccountsInputs)
        \/ register_insert(c)
        \/ logout(c)

AccountsSpec == Init /\ [][AccountsNext]_vars

\* no other client is inside a view function
Alone(c) == \A d \in Clients \ {c} : pc[d] = "idle"

\* RoutinesSpec: two clients, admin and bob, on the routine handlers and
\* add_workout, their requests served one at a time.
RoutinesMaxRoutines == 2

RoutinesMaxLogs == 1

RoutinesInputs ==
    [TourInputs EXCEPT !.names = {"admin", "bob"}, !.passwords = Passwords,
                       !.methods = {"POST"}, !.routine_names = RoutineNames,
                       !.max_routines = RoutinesMaxRoutines, !.max_logs = RoutinesMaxLogs]

RoutinesNext ==
    \E c \in Clients :
        \/ Alone(c) /\ LoginRequest(c, RoutinesInputs)
        \/ Alone(c) /\ AddWorkoutRequest(c, RoutinesInputs)
        \/ Alone(c) /\ my_routines(c)
        \/ Alone(c) /\ AddRoutineRequest(c, RoutinesInputs)
        \/ Alone(c) /\ add_routine_insert(c)
        \/ Alone(c) /\ EditRoutineRequest(c, RoutinesInputs)
        \/ Alone(c) /\ edit_routine_check(c)
        \/ Alone(c) /\ edit_routine_update(c)
        \/ Alone(c) /\ DeleteRoutineRequest(c, RoutinesInputs)
        \/ Alone(c) /\ delete_routine_logs(c)
        \/ Alone(c) /\ delete_routine_routine(c)

RoutinesSpec == Init /\ [][RoutinesNext]_vars

\* LogsSpec: one browser that adds workouts and lists them, with every date
LogsMaxLogs == 2

LogsInputs ==
    [TourInputs EXCEPT !.names = {"admin", "bob"}, !.passwords = Passwords,
                       !.methods = {"POST"},
                       !.dates = {Jan01, Jan02, ShortYear}, !.times = TimeStrings,
                       !.date_from = {EmptyStr, Jan01, Feb31},
                       !.date_to = {Jan01, Jan02, ShortYear, Missing},
                       !.max_logs = LogsMaxLogs]

\* the one browser of LogsSpec
LogsClients == {"c1"}

LogsNext ==
    \E c \in LogsClients :
        \/ LoginRequest(c, LogsInputs)
        \/ logout(c)
        \/ WorkoutLogRequest(c, LogsInputs)
        \/ AddWorkoutRequest(c, LogsInputs)

LogsSpec == Init /\ [][LogsNext]_vars

\* ProgressSpec: one browser that adds workouts with different dates and sets
\* and asks for the progress of bob and of admin
ProgressMaxLogs == 2

ProgressInputs ==
    [TourInputs EXCEPT !.names = {"admin", "bob"}, !.passwords = {"pw2"},
                       !.methods = {"POST"},
                       !.dates = {Jan01, Jan02}, !.sets = SetCounts,
                       !.max_logs = ProgressMaxLogs]

\* the one browser of ProgressSpec
ProgressClients == {"c1"}

ProgressNext ==
    \E c \in ProgressClients :
        \/ LoginRequest(c, ProgressInputs)
        \/ AddWorkoutRequest(c, ProgressInputs)
        \/ TrackProgressRequest(c, ProgressInputs)

ProgressSpec == Init /\ [][ProgressNext]_vars

\* DatesSpec: one browser that adds and edits workouts with dates that are
\* and are not dd/mm/yy dates
DatesMaxLogs == 1

DatesInputs ==
    [TourInputs EXCEPT !.names = {"bob"}, !.passwords = {"pw2"}, !.methods = {"POST"},
                       !.dates = {Jan01, ShortYear, Feb31}, !.times = TimeStrings,
                       !.max_logs = DatesMaxLogs]

\* the one browser of DatesSpec
DatesClients == {"c1"}

DatesNext ==
    \E c \in DatesClients :
        \/ LoginRequest(c, DatesInputs)
        \/ AddWorkoutRequest(c, DatesInputs)
        \/ EditWorkoutRequest(c, DatesInputs)
        \/ edit_workout_update(c)

DatesSpec == Init /\ [][DatesNext]_vars

\* RaceSpec: two clients, admin and bob, whose add_workout, edit_workout and
\* delete_routine requests interleave at every database call.  The forms
\* only submit routines that are there when the request is made, as the
\* pages that list them do.
RaceMaxLogs == 1

RaceInputs ==
    [TourInputs EXCEPT !.names = {"admin", "bob"}, !.passwords = Passwords,
                       !.methods = {"POST"}, !.max_logs = RaceMaxLogs]

\* the ids of the routines there are
RoutineIds == {r._id : r \in routines}

\* an add_workout POST for a routine that exists
AddWorkoutExisting(c, in) ==
    \E workout_date \in in.dates, workout_time \in in.times, routine_id \in RoutineIds,
       notes \in Notes, sets \in in.sets :
        add_workout(c, in, "POST", workout_date, workout_time, routine_id, notes, sets)

\* an edit_workout POST for a routine that exists
EditWorkoutExisting(c, in) ==
    \E log_id \in 1..in.max_logs, workout_date \in in.dates, workout_time \in in.times,
       routine_id \in RoutineIds, notes \in Notes, sets \in in.sets :
        edit_workout(c, "POST", log_id, workout_date, workout_time, routine_id, notes, sets)

RaceNext ==
    \E c \in Clients :
        \/ LoginRequest(c, RaceInputs)
        \/ AddWorkoutExisting(c, RaceInputs)
        \/ EditWorkoutExisting(c, RaceInputs)
        \/ edit_workout_update(c)
        \/ DeleteRoutineRequest(c, RaceInputs)
        \/ delete_routine_logs(c)
        \/ delete_routine_routine(c)

RaceSpec == Init /\ [][RaceNext]_vars

(***************************************************************************)
(* Ownership of workout logs and routines (RoutinesSpec).                  *)
(***************************************************************************)
\* the steps that write workout_logs on behalf of client c: the update_one of
\* edit_workout, the delete_one of delete_workout, the delete_many of
\* delete_routine
LogWrite(c) == edit_workout_update(c) \/ delete_workout_delete(c) \/ delete_routine_logs(c)

\* C1: whenever edit_workout, delete_workout or the log deletion inside
\* delete_routine changes or removes a workout log, the username of that log
\* is the session user of the request.
C1_LogOwnership ==
    [][\A c \in Clients :
         LogWrite(c) =>
            \A log \in workout_logs \ workout_logs' : log.username = session[c]]_vars

\* the steps that write routines on behalf of client c
RoutineWrite(c) == edit_routine_update(c) \/ delete_routine_routine(c)

\* an edit_routine POST or a delete_routine of client c for this routine
RoutineRequest(c, routine_id) ==
    \/ delete_routine(c, routine_id)
    \/ \E routine_name \in RoutineNames, exercises \in Exercises :
          edit_routine(c, "POST", routine_id, routine_name, exercises)

\* C2: edit_routine POST and delete_routine change or remove a routine only
\* when its username is the session user; a request of a session user who is
\* not the owner ends at once and leaves routines and workout_logs unchanged.
C2_RoutineOwnership ==
    [][\A c \in Clients :
         /\ RoutineWrite(c) =>
               \A r \in routines \ routines' : r.username = session[c]
         /\ LogWrite(c) => routines' = routines
         /\ \/ UNCHANGED <<routines, workout_logs>> /\ pc'[c] = "idle"
            \/ \A r \in routines :
                  ~(/\ session[c] # None
                    /\ r.username # session[c]
                    /\ RoutineRequest(c, r._id))]_vars

\* bob has been refused the edit of a routine that is not his
C2_Witness ==
    /\ resp.op = "edit_routine"
    /\ resp.flash = "You don't have permission to edit this routine."
    /\ session[resp.client] = "bob"
    /\ \E r \in routines : r.username = "admin"
    /\ \E r \in routines : r.username = "bob"

(***************************************************************************)
(* Routine names (RoutinesSpec) and the cascade of delete_routine          *)
(* (RoutinesSpec: requests served alone; RaceSpec: interleaved requests).  *)
(***************************************************************************)
\* C5: no two routines of one owner have the same routine_name, and no
\* routine of another user has the routine_name of a routine of admin.
C5_RoutineNamesUnique ==
    \A r1, r2 \in routines :
        (r1 # r2 /\ r1.routine_name = r2.routine_name)
        => /\ r1.username # r2.username
           /\ r1.username # "admin"
           /\ r2.username # "admin"

\* C9: a delete_routine of the routine's owner first removes
\* exactly the logs whose routine_id is the routine's id and then exactly the
\* routine; when it completes no such log and no such routine is left, and
\* the other routines and the logs of other routines are as they were.
C9_CascadeDelete ==
    [][\A c \in Clients :
         /\ \A r \in routines :
               (r.username = session[c] /\ delete_routine(c, r._id))
               => /\ UNCHANGED <<routines, workout_logs>>
                  /\ pc'[c] = "delete_routine_logs"
                  /\ frame'[c].routine = r
         /\ delete_routine_logs(c)
               => /\ routines' = routines
                  /\ workout_logs' =
                        {l \in workout_logs : l.routine_id # frame[c].routine._id}
                  /\ pc'[c] = "delete_routine_routine"
                  /\ frame'[c].routine = frame[c].routine
         /\ delete_routine_routine(c)
               => /\ routines' = {r \in routines : r._id # frame[c].routine._id}
                  /\ workout_logs' = workout_logs
                  /\ \A l \in workout_logs' : l.routine_id # frame[c].routine._id
                  /\ pc'[c] = "idle"]_vars

\* a delete_routine has completed and took with it the one log there was,
\* while another routine is still there
C9_Witness ==
    /\ resp.op = "delete_routine"
    /\ resp.flash = "Routine and workout logs deleted."
    /\ nextLogId > 1
    /\ workout_logs = {}
    /\ routines # {}

(***************************************************************************)
(* The routines of admin, and the login_required gate (Spec).              *)
(***************************************************************************)
\* the elements of a list
Range(list) == {list[i] : i \in 1..Len(list)}

\* the routines whose username is admin
AdminRoutines == {r \in routines : r.username = "admin"}

\* every routine of admin is in the default routines that a my_routines or an
\* add_workout GET of a logged-in client c answers with
ListsAdminRoutines(c) ==
    /\ (session[c] # None /\ my_routines(c))
          => AdminRoutines \subseteq Range(resp'.data.default_routines)
    /\ (session[c] # None /\ \E workout_date \in TourInputs.dates,
                                workout_time \in TourInputs.times,
                                routine_id \in 1..MaxRoutines, notes \in Notes,
                                sets \in TourInputs.sets :
                               add_workout(c, TourInputs, "GET", workout_date, workout_time,
                                           routine_id, notes, sets))
          => AdminRoutines \subseteq Range(resp'.data)

\* C3, as the specification words it: no request changes a field of, or
\* removes, a routine whose username is admin, and the routine lists of
\* my_routines and add_workout contain every routine of admin.
C3_AdminRoutinesNeverChange ==
    [][/\ AdminRoutines \subseteq routines'
       /\ \A c \in TourClients : ListsAdminRoutines(c)]_vars

\* C3, amended: no request of a session user other than admin changes a field
\* of, or removes, a routine whose username is admin, and the routine lists
\* of my_routines and add_workout contain every routine of admin.
C3_AdminRoutinesReadOnly ==
    [][\A c \in TourClients :
         /\ \/ AdminRoutines \subseteq routines'
            \/ session[c] = "admin"
            \/ ~Step(c, TourInputs)
         /\ ListsAdminRoutines(c)]_vars

\* cat has been refused the edit of a routine of admin, which is still there
C3_Witness ==
    /\ resp.op = "edit_routine"
    /\ resp.flash = "You don't have permission to edit this routine."
    /\ session[resp.client] = "cat"
    /\ AdminRoutines # {}

\* the routes behind login_required
GatedOps ==
    {"logout", "workout_log", "add_workout", "edit_workout", "delete_workout",
     "my_routines", "add_routine", "edit_routine", "delete_routine", "track_progress"}

\* a request of client c to the route op
GatedRequest(c, op) ==
    CASE op = "logout" -> logout(c)
      [] op = "workout_log" -> WorkoutLogRequest(c, TourInputs)
      [] op = "add_workout" -> AddWorkoutRequest(c, TourInputs)
      [] op = "edit_workout" -> EditWorkoutRequest(c, TourInputs)
      [] op = "delete_workout" -> DeleteWorkoutRequest(c, TourInputs)
      [] op = "my_routines" -> my_routines(c)
      [] op = "add_routine" -> AddRoutineRequest(c, TourInputs)
      [] op = "edit_routine" -> EditRoutineRequest(c, TourInputs)
      [] op = "delete_routine" -> DeleteRoutineRequest(c, TourInputs)
      [] op = "track_progress" -> TrackProgressRequest(c, TourInputs)

\* C6: a request to a route behind login_required made while the session has
\* no user is answered with a redirect to login and leaves users, routines,
\* workout_logs and the session as they are.
C6_AuthenticationGate ==
    [][\A c \in TourClients :
         session[c] = None =>
            \A op \in GatedOps :
               \/ /\ resp'.client = c /\ resp'.op = op
                  /\ resp'.kind = "redirect" /\ resp'.to = "login"
                  /\ pc'[c] = "idle"
                  /\ UNCHANGED <<users, routines, workout_logs, session>>
               \/ ~GatedRequest(c, op)]_vars

\* a logged-out client asked for delete_routine, was sent to login, and the
\* routine and the log that were there still are
C6_Witness ==
    /\ resp.op = "delete_routine"
    /\ resp.kind = "redirect"
    /\ resp.to = "login"
    /\ session[resp.client] = None
    /\ routines # {}
    /\ workout_logs # {}

(***************************************************************************)
(* Accounts (AccountsSpec).                                                *)
(***************************************************************************)
\* C4: no two user records have usernames that are equal when compared
\* case-insensitively, also when register requests of different clients
\* interleave.
C4_UsernamesUnique ==
    \A u1, u2 \in users : Lower(u1.username) = Lower(u2.username) => u1 = u2

\* the records with this username
Named(username) == {u \in users : u.username = username}

\* the user record with this username exists and the password is the one its
\* stored hash was made from; of several records with the username, the one
\* inserted first is the record
Authentic(username, password) ==
    \E u \in Named(username) :
        /\ \A o \in Named(username) : u._id <= o._id
        /\ u.password = GeneratePasswordHash(password)

\* C7: a login POST made while logged out sets the session user to the
\* lower-cased username if and only if the record with that username exists
\* and the password matches its stored password; otherwise the session stays
\* without a user and the response is a redirect to login.  No login changes
\* users.
C7_Login ==
    [][\A c \in Clients, form_username \in AccountsInputs.names, form_password \in Passwords :
         /\ (session[c] = None /\ login(c, "POST", form_username, form_password))
               => IF Authentic(Lower(form_username), form_password)
                  THEN session'[c] = Lower(form_username)
                  ELSE /\ session'[c] = None
                       /\ resp'.client = c /\ resp'.op = "login"
                       /\ resp'.kind = "redirect" /\ resp'.to = "login"
         /\ (\E method \in Methods : login(c, method, form_username, form_password))
               => users' = users]_vars

\* cat, who registered and logged out, has logged in again
C7_Witness ==
    /\ resp.op = "login"
    /\ resp.flash = "Welcome"
    /\ session[resp.client] = "cat"

\* C8: a register POST made while logged out with a username that exists adds
\* no user record and leaves the session without a user; with a username that
\* does not exist it goes on to add exactly one user record, with that
\* username, and sets the session user to it.  A register or login request of
\* a logged-in client changes neither users nor the session.
C8_Register ==
    [][\A c \in Clients :
         /\ \A form_username \in AccountsInputs.names, form_password \in Passwords :
               /\ (session[c] = None
                   /\ register(c, AccountsInputs, "POST", form_username, form_password))
                     => IF Named(Lower(form_username)) # {}
                        THEN /\ UNCHANGED <<users, session>>
                             /\ pc'[c] = "idle"
                        ELSE /\ UNCHANGED <<users, session>>
                             /\ pc'[c] = "register_insert"
                             /\ frame'[c].username = Lower(form_username)
               /\ (session[c] # None
                   /\ \E method \in Methods :
                         \/ register(c, AccountsInputs, method, form_username, form_password)
                         \/ login(c, method, form_username, form_password))
                     => UNCHANGED <<users, session>>
         /\ register_insert(c)
               => /\ users \subseteq users'
                  /\ Cardinality(users') = Cardinality(users) + 1
                  /\ \A u \in users' \ users : u.username = frame[c].username
                  /\ session' = [session EXCEPT ![c] = frame[c].username]]_vars

\* cat has registered: there is a record of that name, and cat is the session
\* user of the client that registered
C8_Witness ==
    /\ resp.op = "register"
    /\ resp.flash = "Your account has been created."
    /\ session[resp.client] = "cat"
    /\ Named("cat") # {}

(***************************************************************************)
(* The date range of workout_log (LogsSpec).                               *)
(***************************************************************************)
\* the last second of a day
LastSecond(dt) == [dt EXCEPT !.hour = 23, !.minute = 59, !.second = 59]

\* the response lists exactly these logs, latest first
ListsLogs(response, logs) ==
    /\ response.kind = "render"
    /\ Len(response.data) = Cardinality(logs)
    /\ {l._id : l \in Range(response.data)} = {l._id : l \in logs}
    /\ \A i, j \in 1..Len(response.data) :
          i < j => ~DtLess(response.data[i].date, response.data[j].date)

\* what the specification expects of workout_log, f and t being date_from and
\* date_to read as dd/mm/yy dates
DateRangeAnswer(c, date_from, f, t) ==
    IF date_from = EmptyStr
    THEN ListsLogs(resp', {l \in workout_logs : l.username = session[c]})
    ELSE IF f.ok /\ t.ok
    THEN ListsLogs(resp', {l \in workout_logs : /\ l.username = session[c]
                                                /\ DtLeq(f.dt, l.date)
                                                /\ DtLess(l.date, LastSecond(t.dt))})
    ELSE /\ resp'.kind = "redirect"
         /\ resp'.to = "workout_log"
         /\ resp'.flash # ""

\* C10: workout_log with valid date_from and date_to lists exactly the session
\* user's logs with date_from 00:00:00 <= date < date_to 23:59:59, latest
\* first; without date_from it lists all of the session user's logs, latest
\* first; if either date is not a valid dd/mm/yy date it lists nothing and
\* redirects to workout_log with an error message.
C10_DateRange ==
    [][\A c \in LogsClients, date_from \in LogsInputs.date_from,
          date_to \in LogsInputs.date_to :
         (session[c] # None /\ workout_log(c, date_from, date_to))
         => DateRangeAnswer(c, date_from, Strptime(date_from, FmtDate),
                            Strptime(date_to, FmtDate))]_vars

(***************************************************************************)
(* The personal best of track_progress (ProgressSpec).                     *)
(***************************************************************************)
\* labels and values are the dates and sets of these logs, earliest first
ChartsLogs(labels, values, logs) ==
    \E f \in Perms(logs) :
        /\ \A i, j \in 1..Len(f) : i < j => ~DtLess(f[j].date, f[i].date)
        /\ labels = [i \in 1..Len(f) |-> f[i].date]
        /\ values = [i \in 1..Len(f) |-> f[i].sets]

\* what the specification expects of track_progress, logs being the logs
\* with the username and the routine_id of the URL
PersonalBestAnswer(response, logs) ==
    IF logs # {}
    THEN /\ response.kind = "render"
         /\ response.data.best \in logs
         /\ \A l \in logs :
               /\ l.sets <= response.data.best.sets
               /\ l.sets = response.data.best.sets
                     => ~DtLess(l.date, response.data.best.date)
         /\ ChartsLogs(response.data.labels, response.data.values, logs)
    ELSE /\ response.kind = "redirect"
         /\ response.to = "my_routines"
         /\ response.data = <<>>

\* C11: if a workout log has the username and the routine_id, the best that
\* track_progress reports is one of these logs, no such log has more sets,
\* none with as many sets is earlier, and labels and values are the dates and
\* sets of all of them in ascending date order; if there is none the response
\* is a redirect to my_routines and nothing is reported.
C11_PersonalBest ==
    [][\A c \in ProgressClients, username \in ProgressInputs.names,
          routine_id \in 1..ProgressInputs.max_routines :
         (session[c] # None /\ track_progress(c, username, routine_id))
         => PersonalBestAnswer(resp', {l \in workout_logs : /\ l.username = username
                                                            /\ l.routine_id = routine_id})]_vars

\* progress was reported for two logs with as many sets on different days, and
\* the best is the earlier one
C11_Witness ==
    /\ resp.op = "track_progress"
    /\ resp.kind = "render"
    /\ Len(resp.data.values) = 2
    /\ resp.data.values[1] = resp.data.values[2]
    /\ resp.data.labels[1] # resp.data.labels[2]
    /\ resp.data.best.date = resp.data.labels[1]

(***************************************************************************)
(* Malformed dates in add_workout and edit_workout (DatesSpec).            *)
(***************************************************************************)
\* hh:mm
FmtTime == <<"%H", ":", "%M">>

\* the two fields are a dd/mm/yy date and an hh:mm time; d and t are the
\* fields read alone
WellFormed(d, t) == d.ok /\ t.ok

\* an add_workout POST that left workout_logs alone and was sent back to
\* add_workout with a message
AddWorkoutRefused(c) ==
    /\ workout_logs' = workout_logs
    /\ resp'.client = c /\ resp'.op = "add_workout"
    /\ resp'.kind = "redirect" /\ resp'.to = "add_workout"
    /\ resp'.flash # ""

\* an edit_workout POST that left workout_logs alone and ended at once with a
\* response that is not the page asked for
EditWorkoutRefused(c) ==
    /\ workout_logs' = workout_logs
    /\ pc'[c] = "idle"
    /\ resp'.client = c /\ resp'.op = "edit_workout"
    /\ resp'.kind \in {"redirect", "error"}
    /\ resp'.flash # ""

\* the add_workout and edit_workout POSTs of client c with this date and time
\* are refused
MalformedRefused(c, workout_date, workout_time) ==
    \A routine_id \in 1..DatesInputs.max_routines, notes \in Notes, sets \in DatesInputs.sets :
        /\ add_workout(c, DatesInputs, "POST", workout_date, workout_time,
                       routine_id, notes, sets)
              => AddWorkoutRefused(c)
        /\ \A log_id \in 1..DatesMaxLogs :
              edit_workout(c, "POST", log_id, workout_date, workout_time,
                           routine_id, notes, sets)
              => EditWorkoutRefused(c)

\* C12: an add_workout POST or an edit_workout POST whose workout_date and
\* workout_time are not a dd/mm/yy date and an hh:mm time inserts no workout
\* log, modifies none, and ends in an error response, which for add_workout
\* is a redirect to add_workout with an error message.
C12_MalformedDate ==
    [][\A c \in DatesClients, workout_date \in DatesInputs.dates,
          workout_time \in DatesInputs.times :
         (/\ session[c] # None
          /\ ~WellFormed(Strptime(workout_date, FmtDate), Strptime(workout_time, FmtTime)))
         => MalformedRefused(c, workout_date, workout_time)]_vars

(***************************************************************************)
(* Workout logs and the routines they name (RaceSpec).                     *)
(***************************************************************************)
\* C13: when every add_workout and edit_workout POST submits the id of a
\* routine that exists as the request is made, the routine_id of every
\* workout log is the id of a routine of the routines collection, also when
\* an add_workout or edit_workout of one client comes between the delete_many
\* and the delete_one of another client's delete_routine.
C13_ReferentialIntegrity ==
    \A log \in workout_logs : \E r \in routines : r._id = log.routine_id

====
